---- MODULE Spec2Model ----
(***************************************************************************)
(* Model of lib/ansible/module_utils/cloud.py: the backoff generators      *)
(* exponential_backoff and full_jitter_backoff, and the retry loop of      *)
(* CloudRetry.backoff (retry_func).                                        *)
(***************************************************************************)
EXTENDS Integers, Sequences, FiniteSets, TLC

(* ---------------- bounds ---------------- *)
MaxRetries == 3
MaxExpRetries == 5
MaxDelay == 2
MaxBackoff == 3
MaxMaxDelay == 2
RandMax == 2
MaxShareRetries == 2

VARIABLES
    cfg,        \* arguments the backoff factory was built with
    policy,     \* the CloudRetry (sub)class the decorator belongs to
    tape,       \* seed of the random source: the raw values it will produce
    pc,         \* position of retry_func
    gen,        \* the generator object returned by backoff()
    rnd,        \* number of randint draws made on the factory's _random
    delay,      \* loop variable `delay` of retry_func
    e,          \* exception bound by `e = get_exception()`
    calls,      \* outcome of every invocation of f, in order
    trace,      \* observable events of the wrapped call, in order
    result,     \* outcome of the wrapped call
    out,        \* list(strategy()) being built from gen
    gen2,       \* generator of a second, identically built factory
    rnd2,       \* draws made on the second factory's random source
    out2,       \* list(strategy2()) being built from gen2
    ref_i,      \* loop index of the explicit recomputation
    rnd3,       \* draws made on the third random source
    expected,   \* [r.randint(0, ...) for i in range(0, retries)]
    c2          \* locals of a second, concurrent call of retry_func

vars == <<cfg, policy, tape, pc, gen, rnd, delay, e, calls, trace, result,
          out, gen2, rnd2, out2, ref_i, rnd3, expected, c2>>

wrapVars == <<pc, delay, e, calls, trace, result>>
testVars == <<out, gen2, rnd2, out2, ref_i, rnd3, expected, c2>>

(* ---------------- arithmetic ---------------- *)
Min(a, b) == IF a <= b THEN a ELSE b

RECURSIVE Pow(_, _)
Pow(b, n) == IF n = 0 THEN 1 ELSE b * Pow(b, n - 1)

(* _random.randint(a, b) on a source that has made pos draws so far *)
RandInt(tp, pos, a, b) == a + (tp[pos + 1] % (b - a + 1))

(* ---------------- backoff generators ---------------- *)
(* a generator object: `retry` is the next value of the range loop, done   *)
(* is set once the body has run off its end (StopIteration)                *)
NewGen == [retry |-> 0, done |-> FALSE]

(* mutant: `*` written for `**` *)
ExpValueLinear(c, retry) == c.delay * c.backoff * retry
ExpValue(c, retry) == c.delay * Pow(c.backoff, retry)

(* mutant: the cap max_delay left out *)
JitterBoundNoCap(c, retry) == c.delay * Pow(2, retry)
JitterBound(c, retry) == Min(c.max_delay, c.delay * Pow(2, retry))

(* next(g) for the generator of exponential_backoff *)
ExpNext(c, g) ==
    IF (~g.done) /\ g.retry < c.retries
    THEN [stop |-> FALSE, val |-> ExpValue(c, g.retry),
          gen |-> [retry |-> g.retry + 1, done |-> FALSE], draws |-> 0]
    ELSE [stop |-> TRUE, val |-> 0,
          gen |-> [retry |-> g.retry, done |-> TRUE], draws |-> 0]

(* mutant: the exponent runs over range(1, retries + 1) *)
JitterNextFromOne(c, g, tp, pos) ==
    IF (~g.done) /\ g.retry < c.retries
    THEN [stop |-> FALSE,
          val |-> RandInt(tp, pos, 0, JitterBound(c, g.retry + 1)),
          gen |-> [retry |-> g.retry + 1, done |-> FALSE], draws |-> 1]
    ELSE [stop |-> TRUE, val |-> 0,
          gen |-> [retry |-> g.retry, done |-> TRUE], draws |-> 0]

(* mutant: every sequence reads the random source from its start, as if   *)
(* each generator had a copy of the source of its own                      *)
JitterNextOwnSource(c, g, tp, pos) ==
    IF (~g.done) /\ g.retry < c.retries
    THEN [stop |-> FALSE,
          val |-> RandInt(tp, g.retry, 0, JitterBound(c, g.retry)),
          gen |-> [retry |-> g.retry + 1, done |-> FALSE], draws |-> 1]
    ELSE [stop |-> TRUE, val |-> 0,
          gen |-> [retry |-> g.retry, done |-> TRUE], draws |-> 0]

(* next(g) for the generator of full_jitter_backoff *)
JitterNext(c, g, tp, pos) ==
    IF (~g.done) /\ g.retry < c.retries
    THEN [stop |-> FALSE, val |-> RandInt(tp, pos, 0, JitterBound(c, g.retry)),
          gen |-> [retry |-> g.retry + 1, done |-> FALSE], draws |-> 1]
    ELSE [stop |-> TRUE, val |-> 0,
          gen |-> [retry |-> g.retry, done |-> TRUE], draws |-> 0]

GenNext(c, g, tp, pos) ==
    IF c.kind = "exponential" THEN ExpNext(c, g) ELSE JitterNext(c, g, tp, pos)

(* ---------------- configurations ---------------- *)
ExpConfigs(maxr) ==
    [kind : {"exponential"}, retries : 0..maxr, delay : 1..MaxDelay,
     backoff : 1..MaxBackoff, max_delay : {0}]

JitterConfigs(maxr) ==
    [kind : {"full_jitter"}, retries : 0..maxr, delay : 1..MaxDelay,
     backoff : {0}, max_delay : 1..MaxMaxDelay]

Tapes(n) == [1..n -> 0..RandMax]
NoTape == <<>>

(* ---------------- the target function f ---------------- *)
(* what one invocation of f can do: return, or raise an exception of some  *)
(* class carrying some provider status code                                *)
Outcomes ==
    {[kind |-> "return", cls |-> "none", code |-> "none"]}
    \cup [kind : {"raise"}, cls : {"ClientError"},
          code : {"Throttling", "AccessDenied", "none"}]
    \cup [kind : {"raise"}, cls : {"ValueError", "KeyboardInterrupt"},
          code : {"none"}]

(* the outcome of invocation number n of f: the id tells objects apart *)
Tagged(o, n) == [kind |-> o.kind, cls |-> o.cls, code |-> o.code, id |-> n]

NoResult == [kind |-> "none", cls |-> "none", code |-> "none", id |-> 0]

(* the TypeError isinstance() raises when its second argument is None *)
TypeErrorExc == [kind |-> "raise", cls |-> "TypeError", code |-> "none", id |-> 0]

(* `except Exception` catches subclasses of Exception only *)
IsException(x) == x.cls \in {"ClientError", "ValueError", "TypeError"}

(* ---------------- the retry policy ---------------- *)
(* CloudRetry itself has base_class None and methods that return None; a   *)
(* provider subclass sets base_class and overrides the two methods         *)
Policies == [base_class : {"None", "ClientError"}, overridden : BOOLEAN]

RetryCodes == {"Throttling"}

(* mutant: the isinstance test left out, every caught exception classified *)
IsInstanceAny(x, base) == IF base = "None" THEN "TypeError" ELSE "True"

(* isinstance(e, cls.base_class): "True", "False", or "TypeError" *)
IsInstance(x, base) ==
    IF base = "None" THEN "TypeError"
    ELSE IF x.cls = base THEN "True" ELSE "False"

StatusCodeFromException(p, x) == IF p.overridden THEN x.code ELSE "none"

(* mutant: every status code of an overriding policy taken as retryable *)
FoundAny(p, code) == p.overridden

Found(p, code) == IF p.overridden THEN code \in RetryCodes ELSE FALSE

(* ---------------- events ---------------- *)
Ev(op, id, val) == [op |-> op, id |-> id, val |-> val]

(* ---------------- the wrapped call: retry_func ---------------- *)
(* the locals of a call of retry_func that has not run yet *)
NewFrame ==
    [pc |-> "start", delay |-> 0, e |-> NoResult, calls |-> <<>>,
     trace |-> <<>>, result |-> NoResult]

InitTest ==
    /\ out = <<>> /\ gen2 = NewGen /\ rnd2 = 0 /\ out2 = <<>>
    /\ ref_i = 0 /\ rnd3 = 0 /\ expected = <<>>
    /\ c2 = NewFrame

Init ==
    /\ cfg \in ExpConfigs(MaxRetries) \cup JitterConfigs(MaxRetries)
    /\ policy \in Policies
    /\ tape \in (IF cfg.kind = "full_jitter" THEN Tapes(cfg.retries) ELSE {NoTape})
    /\ pc = "start"
    /\ gen = NewGen
    /\ rnd = 0
    /\ delay = 0
    /\ e = NoResult
    /\ calls = <<>>
    /\ trace = <<>>
    /\ result = NoResult
    /\ InitTest

(* line 144, `backoff()`: creates the generator; its body has not run yet *)
Call ==
    /\ pc = "start"
    /\ gen' = NewGen
    /\ pc' = "for"
    /\ UNCHANGED <<cfg, policy, tape, rnd, delay, e, calls, trace, result>>
    /\ UNCHANGED testVars

(* mutant: the delay is slept as soon as it is drawn, before the attempt *)
ForNextSleepsFirst ==
    /\ pc = "for"
    /\ LET r == GenNext(cfg, gen, tape, rnd) IN
        /\ gen' = r.gen
        /\ rnd' = rnd + r.draws
        /\ IF r.stop
           THEN /\ pc' = "final"
                /\ trace' = Append(trace, Ev("StopIteration", 0, 0))
                /\ UNCHANGED delay
           ELSE /\ pc' = "try"
                /\ delay' = r.val
                /\ trace' = trace \o <<Ev("draw", 0, r.val),
                                        Ev("sleep", 0, r.val)>>
    /\ UNCHANGED <<cfg, policy, tape, e, calls, result>>
    /\ UNCHANGED testVars

(* line 144, `for delay in ...`: next() on the generator *)
ForNext ==
    /\ pc = "for"
    /\ LET r == GenNext(cfg, gen, tape, rnd) IN
        /\ gen' = r.gen
        /\ rnd' = rnd + r.draws
        /\ IF r.stop
           THEN /\ pc' = "final"
                /\ trace' = Append(trace, Ev("StopIteration", 0, 0))
                /\ UNCHANGED delay
           ELSE /\ pc' = "try"
                /\ delay' = r.val
                /\ trace' = Append(trace, Ev("draw", 0, r.val))
    /\ UNCHANGED <<cfg, policy, tape, e, calls, result>>
    /\ UNCHANGED testVars

(* lines 145-148: the guarded invocation of f *)
TryCall ==
    /\ pc = "try"
    /\ \E o \in Outcomes :
        LET x == Tagged(o, Len(calls) + 1) IN
        /\ calls' = Append(calls, x)
        /\ trace' = Append(trace, Ev("f", x.id, 0))
        /\ IF x.kind = "return"
           THEN pc' = "returned" /\ result' = x /\ UNCHANGED e
           ELSE IF IsException(x)
           THEN pc' = "except" /\ e' = x /\ UNCHANGED result
           ELSE pc' = "propagating" /\ result' = x /\ UNCHANGED e
    /\ UNCHANGED <<cfg, policy, tape, gen, rnd, delay>>
    /\ UNCHANGED testVars

(* lines 149-151 and 155-160: classification of the caught exception *)
Except ==
    /\ pc = "except"
    /\ LET inst == IsInstance(e, policy.base_class) IN
        IF inst = "TypeError"
        THEN pc' = "propagating" /\ result' = TypeErrorExc /\ UNCHANGED trace
        ELSE IF inst = "False"
        THEN pc' = "propagating" /\ result' = e /\ UNCHANGED trace
        ELSE LET response_code == StatusCodeFromException(policy, e) IN
             /\ trace' = trace \o <<Ev("status_code_from_exception", e.id, 0),
                                     Ev("found", e.id, 0)>>
             /\ IF Found(policy, response_code)
                THEN pc' = "log" /\ UNCHANGED result
                ELSE pc' = "propagating" /\ result' = e
    /\ UNCHANGED <<cfg, policy, tape, gen, rnd, delay, e, calls>>
    /\ UNCHANGED testVars

(* mutant: the message reports the base delay of the factory *)
LogBaseDelay ==
    /\ pc = "log"
    /\ trace' = Append(trace, Ev("log", e.id, cfg.delay))
    /\ pc' = "sleep"
    /\ UNCHANGED <<cfg, policy, tape, gen, rnd, delay, e, calls, result>>
    /\ UNCHANGED testVars

(* lines 152-153: syslog.syslog(LOG_INFO, "<e>: Retrying in <delay> seconds...") *)
Log ==
    /\ pc = "log"
    /\ trace' = Append(trace, Ev("log", e.id, delay))
    /\ pc' = "sleep"
    /\ UNCHANGED <<cfg, policy, tape, gen, rnd, delay, e, calls, result>>
    /\ UNCHANGED testVars

(* mutant: the base delay of the factory is slept, not the drawn one *)
SleepBaseDelay ==
    /\ pc = "sleep"
    /\ trace' = Append(trace, Ev("sleep", e.id, cfg.delay))
    /\ pc' = "for"
    /\ UNCHANGED <<cfg, policy, tape, gen, rnd, delay, e, calls, result>>
    /\ UNCHANGED testVars

(* mutant: after the sleep the attempt is repeated with the same delay,   *)
(* no new element taken from the sequence                                  *)
SleepThenRetrySame ==
    /\ pc = "sleep"
    /\ trace' = Append(trace, Ev("sleep", e.id, delay))
    /\ pc' = "try"
    /\ UNCHANGED <<cfg, policy, tape, gen, rnd, delay, e, calls, result>>
    /\ UNCHANGED testVars

(* line 154: time.sleep(delay) *)
Sleep ==
    /\ pc = "sleep"
    /\ trace' = Append(trace, Ev("sleep", e.id, delay))
    /\ pc' = "for"
    /\ UNCHANGED <<cfg, policy, tape, gen, rnd, delay, e, calls, result>>
    /\ UNCHANGED testVars

(* mutant: no attempt after the loop, the function falls off its end *)
FinalCallMissing ==
    /\ pc = "final"
    /\ pc' = "returned"
    /\ result' = NoResult
    /\ UNCHANGED <<cfg, policy, tape, gen, rnd, delay, e, calls, trace>>
    /\ UNCHANGED testVars

(* mutant: the last attempt made inside the try, its failure classified *)
FinalCallGuarded ==
    /\ pc = "final"
    /\ \E o \in Outcomes :
        LET x == Tagged(o, Len(calls) + 1) IN
        /\ calls' = Append(calls, x)
        /\ trace' = Append(trace, Ev("f", x.id, 0))
        /\ IF x.kind = "return"
           THEN pc' = "returned" /\ result' = x /\ UNCHANGED e
           ELSE IF IsException(x)
           THEN pc' = "except" /\ e' = x /\ UNCHANGED result
           ELSE pc' = "propagating" /\ result' = x /\ UNCHANGED e
    /\ UNCHANGED <<cfg, policy, tape, gen, rnd, delay>>
    /\ UNCHANGED testVars

(* line 161: the final invocation, outside any try *)
FinalCall ==
    /\ pc = "final"
    /\ \E o \in Outcomes :
        LET x == Tagged(o, Len(calls) + 1) IN
        /\ calls' = Append(calls, x)
        /\ trace' = Append(trace, Ev("f", x.id, 0))
        /\ result' = x
        /\ pc' = IF x.kind = "return" THEN "returned" ELSE "propagating"
    /\ UNCHANGED <<cfg, policy, tape, gen, rnd, delay, e>>
    /\ UNCHANGED testVars

Next == Call \/ ForNext \/ TryCall \/ Except \/ Log \/ Sleep \/ FinalCall

Spec == Init /\ [][Next]_vars

(* one thread runs retry_func to its end: when f and time.sleep return,    *)
(* the next statement is executed                                          *)
SpecFair == Spec /\ WF_vars(Next)

(* ---------------- consuming the generators directly ---------------- *)
(* list(strategy()): one next() on the generator, appended to the list *)
ListNext ==
    /\ ~gen.done
    /\ LET r == GenNext(cfg, gen, tape, rnd) IN
        /\ gen' = r.gen
        /\ rnd' = rnd + r.draws
        /\ out' = (IF r.stop THEN out ELSE Append(out, r.val))
    /\ UNCHANGED <<cfg, policy, tape, gen2, rnd2, out2, ref_i, rnd3, expected, c2>>
    /\ UNCHANGED wrapVars

(* the same on the generator of a second factory built with equal          *)
(* arguments and its own random source in the same initial state           *)
List2Next ==
    /\ ~gen2.done
    /\ LET r == GenNext(cfg, gen2, tape, rnd2) IN
        /\ gen2' = r.gen
        /\ rnd2' = rnd2 + r.draws
        /\ out2' = (IF r.stop THEN out2 ELSE Append(out2, r.val))
    /\ UNCHANGED <<cfg, policy, tape, gen, rnd, out, ref_i, rnd3, expected, c2>>
    /\ UNCHANGED wrapVars

(* expected = [r.randint(0, bound(i)) for i in range(0, retries)] on a     *)
(* third source in the same initial state; the test has delay = 1 and      *)
(* max_delay = 60, where the bound min(max_delay, delay * 2 ** i) is the   *)
(* 2 ** i it writes                                                        *)
RefNext ==
    /\ ref_i < cfg.retries
    /\ expected' = Append(expected,
           RandInt(tape, rnd3, 0, Min(cfg.max_delay, cfg.delay * Pow(2, ref_i))))
    /\ rnd3' = rnd3 + 1
    /\ ref_i' = ref_i + 1
    /\ UNCHANGED <<cfg, policy, tape, gen, rnd, out, gen2, rnd2, out2, c2>>
    /\ UNCHANGED wrapVars

InitWrapIdle ==
    /\ pc = "test" /\ delay = 0 /\ e = NoResult /\ calls = <<>>
    /\ trace = <<>> /\ result = NoResult

(* test_backoff.py, ExponentialBackoffStrategyTestCase *)
InitExp ==
    /\ cfg \in ExpConfigs(MaxExpRetries)
    /\ policy = [base_class |-> "None", overridden |-> FALSE]
    /\ tape = NoTape
    /\ gen = NewGen /\ rnd = 0
    /\ InitWrapIdle
    /\ InitTest

NextExp == ListNext

SpecExp == InitExp /\ [][NextExp]_vars

(* test_backoff.py, FullJitterBackoffStrategyTestCase *)
InitJit ==
    /\ cfg \in JitterConfigs(MaxRetries)
    /\ policy = [base_class |-> "None", overridden |-> FALSE]
    /\ tape \in Tapes(cfg.retries)
    /\ gen = NewGen /\ rnd = 0
    /\ InitWrapIdle
    /\ InitTest

NextJit == ListNext \/ List2Next \/ RefNext

SpecJit == InitJit /\ [][NextJit]_vars

(* ---------------- several sequences of one factory ---------------- *)
(* seeds of the random source the factory closes over: the source is       *)
(* followed for n draws                                                    *)
MixTapes(n) ==
    {[i \in 1..n |-> (a + i * k) % (RandMax + 1)] :
        a \in 0..RandMax, k \in 0..RandMax}

(* whether next(g) would call _random.randint *)
WouldDraw(g) ==
    cfg.kind = "full_jitter" /\ (~g.done) /\ g.retry < cfg.retries

(* next() on a first generator of the factory; randint calls on the        *)
(* factory's one _random are recorded with the position that asked         *)
ShareNext ==
    /\ ~gen.done
    /\ WouldDraw(gen) => rnd < Len(tape)
    /\ LET r == GenNext(cfg, gen, tape, rnd) IN
        /\ gen' = r.gen
        /\ rnd' = rnd + r.draws
        /\ out' = (IF r.stop THEN out ELSE Append(out, r.val))
        /\ trace' = (IF r.draws = 1
                     THEN Append(trace, Ev("gen", gen.retry, r.val))
                     ELSE trace)
    /\ UNCHANGED <<cfg, policy, tape, pc, delay, e, calls, result>>
    /\ UNCHANGED <<gen2, rnd2, out2, ref_i, rnd3, expected, c2>>

(* next() on a second generator obtained from the same factory: it has its *)
(* own loop variable and the same _random                                  *)
Share2Next ==
    /\ ~gen2.done
    /\ WouldDraw(gen2) => rnd < Len(tape)
    /\ LET r == GenNext(cfg, gen2, tape, rnd) IN
        /\ gen2' = r.gen
        /\ rnd' = rnd + r.draws
        /\ out2' = (IF r.stop THEN out2 ELSE Append(out2, r.val))
        /\ trace' = (IF r.draws = 1
                     THEN Append(trace, Ev("gen2", gen2.retry, r.val))
                     ELSE trace)
    /\ UNCHANGED <<cfg, policy, tape, pc, delay, e, calls, result>>
    /\ UNCHANGED <<gen, out, rnd2, ref_i, rnd3, expected, c2>>

(* mutant: the factory hands back the generator it made before *)
Again2SameGenerator ==
    /\ gen2 # NewGen
    /\ gen2' = gen2
    /\ out2' = <<>>
    /\ UNCHANGED <<cfg, policy, tape, gen, rnd, out, rnd2, ref_i, rnd3, expected, c2>>
    /\ UNCHANGED wrapVars

(* the factory invoked once more, a new list started from its generator *)
Again2 ==
    /\ gen2 # NewGen
    /\ gen2' = NewGen
    /\ out2' = <<>>
    /\ UNCHANGED <<cfg, policy, tape, gen, rnd, out, rnd2, ref_i, rnd3, expected, c2>>
    /\ UNCHANGED wrapVars

InitShare ==
    /\ cfg \in ExpConfigs(MaxShareRetries) \cup JitterConfigs(MaxShareRetries)
    /\ policy = [base_class |-> "None", overridden |-> FALSE]
    /\ tape \in (IF cfg.kind = "full_jitter"
                 THEN MixTapes(2 * cfg.retries) ELSE {NoTape})
    /\ gen = NewGen /\ rnd = 0
    /\ InitWrapIdle
    /\ InitTest

NextShare == ShareNext \/ Share2Next \/ Again2

SpecShare == InitShare /\ [][NextShare]_vars

(* ---------------- two concurrent calls of the wrapped function -------- *)
(* the second call runs the same retry_func on its own locals c2 and its   *)
(* own generator gen2, with the policy, the factory and the factory's      *)
(* random source of the first                                              *)
others2 == <<cfg, policy, tape, gen, pc, delay, e, calls, trace, result,
             out, rnd2, out2, ref_i, rnd3, expected>>

Call2 ==
    /\ c2.pc = "start"
    /\ gen2' = NewGen
    /\ c2' = [c2 EXCEPT !.pc = "for"]
    /\ UNCHANGED rnd
    /\ UNCHANGED others2

(* mutant: backoff() evaluated once when the function is decorated, the    *)
(* generator shared by all calls                                           *)
ForNext2SharedGenerator ==
    /\ c2.pc = "for"
    /\ LET r == GenNext(cfg, gen, tape, rnd) IN
        /\ gen' = r.gen
        /\ rnd' = rnd + r.draws
        /\ IF r.stop
           THEN c2' = [c2 EXCEPT !.pc = "final",
                         !.trace = Append(@, Ev("StopIteration", 0, 0))]
           ELSE c2' = [c2 EXCEPT !.pc = "try", !.delay = r.val,
                         !.trace = Append(@, Ev("draw", 0, r.val))]
    /\ UNCHANGED <<cfg, policy, tape, gen2, pc, delay, e, calls, trace, result,
                   out, rnd2, out2, ref_i, rnd3, expected>>

ForNext2 ==
    /\ c2.pc = "for"
    /\ LET r == GenNext(cfg, gen2, tape, rnd) IN
        /\ gen2' = r.gen
        /\ rnd' = rnd + r.draws
        /\ IF r.stop
           THEN c2' = [c2 EXCEPT !.pc = "final",
                         !.trace = Append(@, Ev("StopIteration", 0, 0))]
           ELSE c2' = [c2 EXCEPT !.pc = "try", !.delay = r.val,
                         !.trace = Append(@, Ev("draw", 0, r.val))]
    /\ UNCHANGED others2

TryCall2 ==
    /\ c2.pc = "try"
    /\ \E o \in Outcomes :
        LET x == Tagged(o, Len(c2.calls) + 1)
            f2 == [c2 EXCEPT !.calls = Append(@, x),
                             !.trace = Append(@, Ev("f", x.id, 0))]
        IN  IF x.kind = "return"
            THEN c2' = [f2 EXCEPT !.pc = "returned", !.result = x]
            ELSE IF IsException(x)
            THEN c2' = [f2 EXCEPT !.pc = "except", !.e = x]
            ELSE c2' = [f2 EXCEPT !.pc = "propagating", !.result = x]
    /\ UNCHANGED <<gen2, rnd>>
    /\ UNCHANGED others2

Except2 ==
    /\ c2.pc = "except"
    /\ LET inst == IsInstance(c2.e, policy.base_class) IN
        IF inst = "TypeError"
        THEN c2' = [c2 EXCEPT !.pc = "propagating", !.result = TypeErrorExc]
        ELSE IF inst = "False"
        THEN c2' = [c2 EXCEPT !.pc = "propagating", !.result = c2.e]
        ELSE LET response_code == StatusCodeFromException(policy, c2.e)
                 f2 == [c2 EXCEPT !.trace = @ \o
                          <<Ev("status_code_from_exception", c2.e.id, 0),
                            Ev("found", c2.e.id, 0)>>]
             IN  IF Found(policy, response_code)
                 THEN c2' = [f2 EXCEPT !.pc = "log"]
                 ELSE c2' = [f2 EXCEPT !.pc = "propagating", !.result = c2.e]
    /\ UNCHANGED <<gen2, rnd>>
    /\ UNCHANGED others2

Log2 ==
    /\ c2.pc = "log"
    /\ c2' = [c2 EXCEPT !.pc = "sleep",
                        !.trace = Append(@, Ev("log", c2.e.id, c2.delay))]
    /\ UNCHANGED <<gen2, rnd>>
    /\ UNCHANGED others2

Sleep2 ==
    /\ c2.pc = "sleep"
    /\ c2' = [c2 EXCEPT !.pc = "for",
                        !.trace = Append(@, Ev("sleep", c2.e.id, c2.delay))]
    /\ UNCHANGED <<gen2, rnd>>
    /\ UNCHANGED others2

FinalCall2 ==
    /\ c2.pc = "final"
    /\ \E o \in Outcomes :
        LET x == Tagged(o, Len(c2.calls) + 1) IN
        c2' = [c2 EXCEPT !.calls = Append(@, x),
                         !.trace = Append(@, Ev("f", x.id, 0)),
                         !.result = x,
                         !.pc = IF x.kind = "return" THEN "returned"
                                ELSE "propagating"]
    /\ UNCHANGED <<gen2, rnd>>
    /\ UNCHANGED others2

(* seeds of the shared random source, followed for n draws *)
ConcTapes(n) ==
    {[i \in 1..n |-> (i * k) % (RandMax + 1)] : k \in 0..RandMax}

InitConc ==
    /\ cfg \in ExpConfigs(MaxShareRetries) \cup JitterConfigs(MaxShareRetries)
    /\ policy \in {p \in Policies : p.base_class # "None"}
    /\ tape \in (IF cfg.kind = "full_jitter"
                 THEN ConcTapes(2 * cfg.retries) ELSE {NoTape})
    /\ pc = "start"
    /\ gen = NewGen
    /\ rnd = 0
    /\ delay = 0
    /\ e = NoResult
    /\ calls = <<>>
    /\ trace = <<>>
    /\ result = NoResult
    /\ InitTest

NextConc ==
    \/ Call \/ ForNext \/ TryCall \/ Except \/ Log \/ Sleep \/ FinalCall
    \/ Call2 \/ ForNext2 \/ TryCall2 \/ Except2 \/ Log2 \/ Sleep2 \/ FinalCall2

SpecConc == InitConc /\ [][NextConc]_vars

(* ======================================================================= *)
(* Observations on a run of the wrapped call                               *)
(* ======================================================================= *)
Terminal == pc \in {"returned", "propagating"}

EventsOf(ops) == SelectSeq(trace, LAMBDA ev : ev.op \in ops)
Vals(evs) == [i \in 1..Len(evs) |-> evs[i].val]

Sleeps == Vals(EventsOf({"sleep"}))
Draws == Vals(EventsOf({"draw"}))
Classified == {trace[i].id : i \in {j \in 1..Len(trace) :
                  trace[j].op \in {"status_code_from_exception", "found"}}}
Logged == {trace[i].id : i \in {j \in 1..Len(trace) : trace[j].op = "log"}}
SleptFor == {trace[i].id : i \in {j \in 1..Len(trace) : trace[j].op = "sleep"}}

HasFamily == policy.base_class # "None"
Recognized(x) == x.kind = "raise" /\ HasFamily /\ x.cls = policy.base_class
RetryableFailure(x) ==
    Recognized(x) /\ policy.overridden /\ x.code \in RetryCodes
AllRetryable(n) == \A i \in 1..n : RetryableFailure(calls[i])

(* f, sleep, f, sleep, ..., f: invocation k is followed by the k-th sleep *)
Alternates(fs) ==
    \A j \in 1..Len(fs) :
        IF j % 2 = 1 THEN fs[j].op = "f" /\ fs[j].id = (j + 1) \div 2
        ELSE fs[j].op = "sleep" /\ fs[j].id = j \div 2

(* C1: a call whose every invocation of f fails with a recognized,         *)
(* retryable exception invokes f retries + 1 times, sleeps the retries     *)
(* delays of the sequence in order, one between consecutive invocations,   *)
(* and propagates the exception of the last invocation.                    *)
C1_AllRetryableExhausts ==
    (Terminal /\ AllRetryable(Len(calls))) =>
        /\ Len(calls) = cfg.retries + 1
        /\ Len(Sleeps) = cfg.retries
        /\ Sleeps = Draws
        /\ Alternates(EventsOf({"f", "sleep"}))
        /\ Len(EventsOf({"f", "sleep"})) = 2 * cfg.retries + 1
        /\ pc = "propagating"
        /\ result = calls[Len(calls)]

C1_Witness ==
    /\ Terminal /\ AllRetryable(Len(calls))
    /\ cfg.retries >= 2 /\ Len(calls) = cfg.retries + 1
    /\ Sleeps # <<>> /\ Sleeps[1] # Sleeps[Len(Sleeps)]

(* C2: when the first k invocations fail retryably and invocation k + 1    *)
(* returns, the call returns that result after exactly k sleeps (the first *)
(* k delays, in order) and k + 1 invocations; f is not invoked after it    *)
(* has returned.                                                           *)
C2_SuccessAfterKFailures ==
    \A i \in 1..Len(calls) :
        calls[i].kind = "return" =>
            /\ i = Len(calls)
            /\ i <= cfg.retries + 1
            /\ AllRetryable(i - 1)
            /\ pc = "returned"
            /\ result = calls[i]
            /\ Len(Sleeps) = i - 1
            /\ Sleeps = SubSeq(Draws, 1, i - 1)
            /\ Alternates(EventsOf({"f", "sleep"}))

C2_Witness ==
    /\ pc = "returned" /\ Len(calls) = 3 /\ Len(Sleeps) = 2
    /\ cfg.retries = 3 /\ Sleeps[1] # Sleeps[2]

(* C3: with a declared exception family and retries >= 1, an exception of  *)
(* f outside the family is propagated at once as it is: it is never        *)
(* classified, logged or slept for, and f is not invoked again.            *)
Unrecognized(x) == x.kind = "raise" /\ HasFamily /\ x.cls # policy.base_class

C3_UnrecognizedPropagates ==
    (HasFamily /\ cfg.retries >= 1) =>
        \A i \in 1..Len(calls) :
            Unrecognized(calls[i]) =>
                /\ i = Len(calls)
                /\ i \notin Classified
                /\ i \notin Logged
                /\ i \notin SleptFor
                /\ Len(Sleeps) = i - 1
                /\ pc \in {"except", "propagating"}
                /\ pc = "except" => e = calls[i]
                /\ pc = "propagating" => result = calls[i]

C3_Witness ==
    /\ HasFamily /\ cfg.retries >= 1 /\ pc = "propagating"
    /\ Len(calls) = 1 /\ calls[1].cls = "ValueError" /\ result = calls[1]
    /\ Sleeps = <<>>

(* C4: an exception of the family whose status code is not retryable       *)
(* (none included) is propagated at once as it is, with no log, no sleep   *)
(* for it and no further invocation of f.                                  *)
NonRetryable(x) == Recognized(x) /\ ~RetryableFailure(x)

C4_NonRetryablePropagates ==
    \A i \in 1..Len(calls) :
        NonRetryable(calls[i]) =>
            /\ i = Len(calls)
            /\ i \notin Logged
            /\ i \notin SleptFor
            /\ Len(Sleeps) = i - 1
            /\ pc \in {"except", "propagating"}
            /\ pc = "except" => e = calls[i]
            /\ pc = "propagating" => result = calls[i]

C4_Witness ==
    /\ pc = "propagating" /\ Len(calls) = 1 /\ NonRetryable(calls[1])
    /\ calls[1].code = "none" /\ policy.overridden
    /\ 1 \in Classified /\ result = calls[1] /\ Sleeps = <<>>
    /\ cfg.retries >= 1

(* C5: once every delay of the sequence has been slept, f is invoked one   *)
(* more time and the outcome of that invocation, whatever it is, is the    *)
(* outcome of the call: nothing is classified, logged or slept after it.   *)
C5_FinalAttemptUnguarded ==
    /\ Len(calls) <= cfg.retries + 1
    /\ (Len(Sleeps) = cfg.retries /\ pc \in {"for", "final"}) =>
            Len(calls) = cfg.retries
    /\ pc = "final" => Len(Sleeps) = cfg.retries /\ AllRetryable(Len(calls))
    /\ Len(calls) = cfg.retries + 1 =>
        LET last == calls[Len(calls)] IN
        /\ Len(Sleeps) = cfg.retries
        /\ Terminal
        /\ result = last
        /\ pc = (IF last.kind = "return" THEN "returned" ELSE "propagating")
        /\ trace[Len(trace)] = Ev("f", last.id, 0)
        /\ last.id \notin Classified \cup Logged \cup SleptFor

C5_Witness ==
    /\ cfg.retries >= 2 /\ Len(calls) = cfg.retries + 1
    /\ RetryableFailure(calls[Len(calls)])
    /\ pc = "propagating" /\ result = calls[Len(calls)]

(* C6: the call ends with the value returned, or with the very exception   *)
(* raised, by the most recent invocation of f, for every policy: the       *)
(* wrapper never ends a call with an exception f did not raise.            *)
C6_OutcomeIsLastInvocation ==
    Terminal => (Len(calls) >= 1 /\ result = calls[Len(calls)])

(* C7 as stated: a call whose first invocation of f returns has drawn no   *)
(* element from the backoff sequence, has not advanced the random source   *)
(* and has not slept.                                                      *)
C7_FirstSuccessDrawsNothing ==
    (Len(calls) >= 1 /\ calls[1].kind = "return") =>
        (Draws = <<>> /\ rnd = 0 /\ Sleeps = <<>>)

(* C7 amended: a call whose first invocation of f returns never sleeps,    *)
(* and has drawn from the sequence exactly the one element taken before    *)
(* that invocation when retries >= 1 (one randint draw with                *)
(* full_jitter_backoff), and nothing when retries = 0.                     *)
C7_FirstSuccessDrawsAtMostOne ==
    (Len(calls) >= 1 /\ calls[1].kind = "return") =>
        /\ Sleeps = <<>>
        /\ Logged = {}
        /\ Len(Draws) = Min(1, cfg.retries)
        /\ gen.retry = Min(1, cfg.retries)
        /\ rnd = (IF cfg.kind = "full_jitter" THEN Min(1, cfg.retries) ELSE 0)

C7_Witness ==
    /\ pc = "returned" /\ Len(calls) = 1 /\ cfg.kind = "full_jitter"
    /\ cfg.retries >= 1 /\ rnd = 1 /\ Len(Draws) = 1 /\ Sleeps = <<>>

(* ======================================================================= *)
(* The backoff generators                                                  *)
(* ======================================================================= *)
IsPrefix(a, b) == Len(a) <= Len(b) /\ a = SubSeq(b, 1, Len(a))

(* C8: the sequence of exponential_backoff(retries, delay, backoff) has    *)
(* exactly retries elements, element i being delay * backoff^i: the first  *)
(* is delay and each next one is backoff times the one before; it is empty *)
(* for retries = 0, and (5, 1, 2) gives 1, 2, 4, 8, 16.                    *)
C8_ExponentialSequence ==
    /\ Len(out) <= cfg.retries
    /\ Len(out) = gen.retry
    /\ gen.done => Len(out) = cfg.retries
    /\ Len(out) >= 1 => out[1] = cfg.delay
    /\ \A i \in 1..(Len(out) - 1) : out[i + 1] = out[i] * cfg.backoff
    /\ rnd = 0
    /\ (cfg.retries = 5 /\ cfg.delay = 1 /\ cfg.backoff = 2) =>
            IsPrefix(out, <<1, 2, 4, 8, 16>>)

C8_Witness ==
    /\ gen.done /\ cfg.retries = 5 /\ cfg.delay = 1 /\ cfg.backoff = 2
    /\ out = <<1, 2, 4, 8, 16>>

(* C9: the sequence of full_jitter_backoff has exactly retries elements,   *)
(* the element at position i lies in 0 .. min(max_delay, delay * 2^i), no  *)
(* element exceeds max_delay, and for retries = 0 the sequence is empty    *)
(* and the random source is not used.                                      *)
RECURSIVE TwoTo(_)
TwoTo(n) == IF n = 0 THEN 1 ELSE 2 * TwoTo(n - 1)

C9_JitterWithinBounds ==
    /\ Len(out) <= cfg.retries
    /\ gen.done => Len(out) = cfg.retries
    /\ \A k \in 1..Len(out) :
          /\ 0 <= out[k]
          /\ out[k] <= cfg.max_delay
          /\ out[k] <= cfg.delay * TwoTo(k - 1)
    /\ rnd = Len(out)
    /\ cfg.retries = 0 => (out = <<>> /\ rnd = 0)

C9_Witness ==
    /\ gen.done /\ cfg.retries = 3 /\ cfg.delay = 1 /\ cfg.max_delay = 2
    /\ out = <<1, 2, 2>>

(* C10: two factories built with equal arguments and separate random       *)
(* sources in the same initial state produce the same sequence, which is   *)
(* the one obtained by calling randint(0, min(max_delay, delay * 2^i)) for *)
(* i = 0 .. retries - 1 on a third such source: one draw per element, in   *)
(* position order.                                                         *)
Agree(a, b) == \A k \in 1..Min(Len(a), Len(b)) : a[k] = b[k]

C10_JitterDeterministic ==
    /\ Agree(out, out2) /\ Agree(out, expected) /\ Agree(out2, expected)
    /\ rnd = Len(out) /\ rnd2 = Len(out2) /\ rnd3 = Len(expected)
    /\ (gen.done /\ gen2.done /\ ref_i = cfg.retries) =>
            (out = out2 /\ out = expected /\ Len(out) = cfg.retries)

C10_Witness ==
    /\ gen.done /\ gen2.done /\ ref_i = cfg.retries /\ cfg.retries = 3
    /\ out = out2 /\ out = expected /\ out[1] # out[2] /\ out[3] = 2

(* ======================================================================= *)
(* Several sequences of one factory                                        *)
(* ======================================================================= *)
DrawsBy(g) == SelectSeq(trace, LAMBDA ev : ev.op = g)

(* the last Len(o) randint calls made for generator g are those of the     *)
(* sequence o it is producing now, asked for positions 0, 1, 2, ...        *)
OwnPositions(g, o) ==
    LET d == DrawsBy(g) IN
    /\ Len(o) <= Len(d)
    /\ \A k \in 1..Len(o) :
          /\ d[Len(d) - Len(o) + k].id = k - 1
          /\ d[Len(d) - Len(o) + k].val = o[k]

Geometric(o) ==
    /\ Len(o) >= 1 => o[1] = cfg.delay
    /\ \A i \in 1..(Len(o) - 1) : o[i + 1] = o[i] * cfg.backoff

(* C11: every sequence obtained from a factory starts at position 0 and    *)
(* has exactly retries elements, whatever was consumed from other          *)
(* sequences of the factory before or in between; the sequences of         *)
(* exponential_backoff all have the same values.                           *)
C11_RestartableInPosition ==
    /\ Len(out) = gen.retry /\ Len(out2) = gen2.retry
    /\ Len(out) <= cfg.retries /\ Len(out2) <= cfg.retries
    /\ gen.done => Len(out) = cfg.retries
    /\ gen2.done => Len(out2) = cfg.retries
    /\ cfg.kind = "exponential" =>
          (Geometric(out) /\ Geometric(out2) /\ Agree(out, out2))
    /\ cfg.kind = "full_jitter" =>
          /\ OwnPositions("gen", out) /\ OwnPositions("gen2", out2)
          /\ \A k \in 1..Len(out2) :
                out2[k] <= Min(cfg.max_delay, cfg.delay * TwoTo(k - 1))

C11_Witness ==
    /\ cfg.kind = "full_jitter" /\ cfg.retries = 2
    /\ gen2.done /\ Len(out2) = 2 /\ Len(DrawsBy("gen2")) = 3
    /\ Len(out) = 1 /\ ~gen.done

(* the values a factory gives when nothing was drawn from its source before *)
FreshJitter(k) ==
    tape[k] % (Min(cfg.max_delay, cfg.delay * TwoTo(k - 1)) + 1)

ValsOf(tr, op) == Vals(SelectSeq(tr, LAMBDA ev : ev.op = op))
FAndSleep(tr) == SelectSeq(tr, LAMBDA ev : ev.op \in {"f", "sleep"})

(* what one call shows of its own retry state: g is its generator, tr its  *)
(* events, cs the outcomes of its invocations of f, at position p          *)
OwnRetryState(g, tr, cs, p) ==
    LET dr == ValsOf(tr, "draw")
        sl == ValsOf(tr, "sleep")
    IN  /\ g.retry = Len(dr)
        /\ Len(cs) <= cfg.retries + 1
        /\ Len(sl) <= cfg.retries
        /\ sl = SubSeq(dr, 1, Len(sl))
        /\ Alternates(FAndSleep(tr))
        /\ cfg.kind = "exponential" => Geometric(dr)
        /\ \A k \in 1..Len(dr) :
              cfg.kind = "full_jitter" =>
                  dr[k] <= Min(cfg.max_delay, cfg.delay * TwoTo(k - 1))
        /\ p = "final" => (Len(cs) = cfg.retries /\ Len(sl) = cfg.retries)
        /\ (p \in {"returned", "propagating"}
              /\ \A i \in 1..Len(cs) : RetryableFailure(cs[i]))
             => (Len(cs) = cfg.retries + 1 /\ Len(sl) = cfg.retries)

(* C13: two calls of the same wrapped function, interleaved in any order   *)
(* and sharing the policy and the backoff factory, share no retry-count    *)
(* state: each has its own sequence, makes up to retries + 1 invocations   *)
(* of f whatever the other has used, and sleeps the delays of its own      *)
(* sequence in order from position 0.                                      *)
C13_NoSharedRetryState ==
    /\ OwnRetryState(gen, trace, calls, pc)
    /\ OwnRetryState(gen2, c2.trace, c2.calls, c2.pc)

C13_Witness ==
    /\ cfg.retries = 2 /\ cfg.kind = "exponential" /\ cfg.backoff = 2
    /\ pc = "propagating" /\ Len(calls) = 3 /\ Sleeps = <<cfg.delay, 2 * cfg.delay>>
    /\ c2.pc = "sleep" /\ Len(c2.calls) = 1
    /\ ValsOf(c2.trace, "draw") = <<cfg.delay>>

(* ======================================================================= *)
(* Order and number of the steps of one wrapped call                       *)
(* ======================================================================= *)
CountOf(op, id) ==
    Cardinality({j \in 1..Len(trace) : trace[j].op = op /\ trace[j].id = id})

(* C14: each recognized retryable failure of a guarded attempt gives       *)
(* exactly one log entry followed at once by exactly one sleep, before the *)
(* next invocation of f; the delay logged is the duration slept and is the *)
(* element drawn for that attempt. Log entries and sleeps are equal in     *)
(* number, the sleep of the newest entry being the one retry_func enters   *)
(* next while it stands between lines 153 and 154; nothing is logged or    *)
(* slept for a success, an unrecognized or non-retryable exception or the  *)
(* final attempt.                                                          *)
C14_LogThenSleep ==
    /\ Len(EventsOf({"log"})) =
          Len(EventsOf({"sleep"})) + (IF pc = "sleep" THEN 1 ELSE 0)
    /\ \A j \in 1..Len(trace) :
          trace[j].op = "log" =>
            /\ j > 1 /\ trace[j - 1] = Ev("found", trace[j].id, 0)
            /\ j < Len(trace) =>
                  trace[j + 1] = Ev("sleep", trace[j].id, trace[j].val)
            /\ j = Len(trace) =>
                  (pc = "sleep" /\ delay = trace[j].val /\ e.id = trace[j].id)
            /\ trace[j].id <= Len(Draws)
            /\ trace[j].val = Draws[trace[j].id]
    /\ \A j \in 1..Len(trace) :
          trace[j].op = "sleep" =>
            /\ j > 1 /\ trace[j - 1] = Ev("log", trace[j].id, trace[j].val)
            /\ j < Len(trace) => trace[j + 1].op \in {"draw", "StopIteration"}
    /\ \A i \in 1..Len(calls) :
          IF RetryableFailure(calls[i]) /\ i <= cfg.retries
          THEN /\ CountOf("log", i) <= 1 /\ CountOf("sleep", i) <= 1
               /\ CountOf("log", i) = 0 =>
                     (i = Len(calls) /\ pc \in {"except", "log"})
          ELSE CountOf("log", i) = 0 /\ CountOf("sleep", i) = 0

C14_Witness ==
    /\ cfg.retries = 3 /\ Len(calls) = 4 /\ Terminal
    /\ Len(EventsOf({"log"})) = 3 /\ Len(Sleeps) = 3
    /\ Vals(EventsOf({"log"})) = Sleeps /\ Sleeps[1] # Sleeps[3]
    /\ RetryableFailure(calls[4])

(* C15: every call of the wrapped function ends, returned or propagating,  *)
(* after at most retries + 1 invocations of f and retries sleeps; it       *)
(* starts at attempt index 0, the index (the number of retryable failures  *)
(* slept for) only ever grows, by one per retryable failure, and f is      *)
(* invoked once per index.                                                 *)
AttemptIndex == Len(Sleeps)

C15_Terminates ==
    /\ <>Terminal
    /\ [](/\ Len(calls) <= cfg.retries + 1
          /\ AttemptIndex <= cfg.retries
          /\ pc = "start" => (AttemptIndex = 0 /\ calls = <<>>))
    /\ [][/\ AttemptIndex' \in {AttemptIndex, AttemptIndex + 1}
          /\ AttemptIndex' = AttemptIndex + 1 =>
                (pc = "sleep" /\ RetryableFailure(e) /\ e = calls[Len(calls)])
          /\ Len(calls') # Len(calls) =>
                (Len(calls') = Len(calls) + 1 /\ Len(calls) = AttemptIndex)
          /\ Terminal => UNCHANGED vars]_vars

C15_Witness ==
    /\ Terminal /\ cfg.retries = 3 /\ Len(calls) = 4 /\ AttemptIndex = 3
    /\ pc = "returned"

(* ======================================================================= *)
(* Total time slept                                                        *)
(* ======================================================================= *)
RECURSIVE Sum(_)
Sum(q) == IF q = <<>> THEN 0 ELSE q[1] + Sum(Tail(q))

RECURSIVE Geo(_)
Geo(k) == IF k = 1 THEN cfg.delay ELSE cfg.backoff * Geo(k - 1)

(* the whole sequence the call's generator stands for *)
FullSequence ==
    [k \in 1..cfg.retries |->
        IF cfg.kind = "exponential" THEN Geo(k) ELSE FreshJitter(k)]

AllGuardedFailed ==
    /\ Len(calls) >= cfg.retries
    /\ \A i \in 1..cfg.retries : RetryableFailure(calls[i])

(* C16 as stated: the durations slept are a prefix of the sequence, their  *)
(* sum is at most the sum of the sequence, and it is equal exactly when    *)
(* all retries guarded attempts failed retryably.                          *)
C16_TotalSleepExactlyWhen ==
    /\ IsPrefix(Sleeps, FullSequence)
    /\ Sum(Sleeps) <= Sum(FullSequence)
    /\ Terminal => (Sum(Sleeps) = Sum(FullSequence) <=> AllGuardedFailed)

(* C16 amended: the durations slept are a prefix of the sequence and their *)
(* sum is at most the sum of the sequence; it equals that sum when all     *)
(* retries guarded attempts failed retryably, and otherwise only when      *)
(* every delay not slept is zero, which full_jitter_backoff can produce    *)
(* and exponential_backoff with positive delay and backoff cannot.         *)
C16_TotalSleepBounded ==
    /\ IsPrefix(Sleeps, FullSequence)
    /\ Sum(Sleeps) <= Sum(FullSequence)
    /\ Terminal =>
          /\ AllGuardedFailed =>
                (Sleeps = FullSequence /\ Sum(Sleeps) = Sum(FullSequence))
          /\ Sum(Sleeps) = Sum(FullSequence) =>
                \/ AllGuardedFailed
                \/ /\ cfg.kind = "full_jitter"
                   /\ \A k \in (Len(Sleeps) + 1)..cfg.retries :
                         FullSequence[k] = 0
          /\ cfg.kind = "exponential" =>
                (Sum(Sleeps) = Sum(FullSequence) <=> AllGuardedFailed)

C16_Witness ==
    /\ Terminal /\ cfg.kind = "full_jitter" /\ cfg.retries = 3
    /\ Len(Sleeps) = 1 /\ Sleeps[1] > 0
    /\ Sum(Sleeps) = Sum(FullSequence) /\ ~AllGuardedFailed

(* ======================================================================= *)
(* The base policy, the empty sequence, draws and attempts                 *)
(* ======================================================================= *)
(* C17: with CloudRetry as it is defined (base_class None, methods not     *)
(* overridden) and retries >= 1, an exception raised by a guarded          *)
(* invocation of f is not classified and is propagated at once as that     *)
(* same exception, with no sleep and no retry.                             *)
C17_BasePolicyPropagatesOriginal ==
    (policy = [base_class |-> "None", overridden |-> FALSE]
        /\ cfg.retries >= 1) =>
        \A i \in 1..Len(calls) :
            calls[i].kind = "raise" =>
                /\ i = Len(calls)
                /\ i \notin Classified
                /\ Sleeps = <<>>
                /\ pc \in {"except", "propagating"}
                /\ pc = "propagating" => result = calls[i]

(* C18: with an empty sequence (retries = 0) a call invokes f exactly      *)
(* once, unguarded: its value is returned or its exception propagates,     *)
(* with no classification, log entry or sleep even for a recognized        *)
(* retryable exception.                                                    *)
C18_EmptySequenceSingleAttempt ==
    cfg.retries = 0 =>
        /\ Len(calls) <= 1
        /\ pc \in {"start", "for", "final", "returned", "propagating"}
        /\ Draws = <<>> /\ Sleeps = <<>> /\ rnd = 0
        /\ Classified = {} /\ Logged = {}
        /\ Terminal <=> Len(calls) = 1
        /\ Len(calls) = 1 =>
              /\ result = calls[1]
              /\ pc = (IF calls[1].kind = "return" THEN "returned"
                       ELSE "propagating")
              /\ trace = <<Ev("StopIteration", 0, 0), Ev("f", 1, 0)>>

C18_Witness ==
    /\ cfg.retries = 0 /\ pc = "propagating" /\ Len(calls) = 1
    /\ RetryableFailure(calls[1]) /\ result = calls[1]

(* C19: the number of elements drawn from the sequence is the number of    *)
(* guarded attempts started, an attempt starting when its delay is bound   *)
(* by the loop header, before f is invoked for it: one draw per guarded    *)
(* attempt. A call that ends at guarded attempt k has drawn k elements and *)
(* slept k - 1 of them, and the final attempt is made only after a draw    *)
(* beyond the last element found the sequence exhausted.                   *)
Stopped == \E j \in 1..Len(trace) : trace[j].op = "StopIteration"

GuardedInvoked ==
    Cardinality({j \in 1..Len(trace) :
        /\ trace[j].op = "f"
        /\ \A i \in 1..j : trace[i].op # "StopIteration"})

C19_DrawsMatchGuardedAttempts ==
    /\ Len(Draws) = GuardedInvoked + (IF pc = "try" THEN 1 ELSE 0)
    /\ gen.retry = Len(Draws)
    /\ Len(EventsOf({"StopIteration"})) <= 1
    /\ (Terminal /\ ~Stopped) =>
          /\ Len(calls) = GuardedInvoked
          /\ Len(Draws) = Len(calls)
          /\ Len(Sleeps) = Len(calls) - 1
    /\ Stopped =>
          /\ gen.done /\ Len(Draws) = cfg.retries /\ Len(Sleeps) = cfg.retries
          /\ pc \in {"final", "returned", "propagating"}
    /\ Len(calls) > GuardedInvoked =>
          /\ Len(calls) = GuardedInvoked + 1
          /\ Len(trace) >= 2
          /\ trace[Len(trace) - 1] = Ev("StopIteration", 0, 0)
          /\ trace[Len(trace)] = Ev("f", Len(calls), 0)
    /\ pc = "final" <=> (Stopped /\ Len(calls) = GuardedInvoked)

C19_Witness ==
    /\ pc = "propagating" /\ ~Stopped /\ cfg.retries = 3
    /\ Len(calls) = 3 /\ Len(Draws) = 3 /\ Len(Sleeps) = 2

====
